---------------------------- MODULE Spec2Model ----------------------------
(***************************************************************************)
(* Model of the in-page search of src/theme/book.js (the `search` module): *)
(* the URL codec (parseURL / renderURL), the search/URL synchroniser       *)
(* (setSearchUrlParameters), the teaser generator (makeTeaser), the query  *)
(* executor (doSearch) and the index loader (init).                        *)
(*                                                                         *)
(* Strings are sequences of tokens.  In URLs a token is either one of the  *)
(* delimiter characters the code or the browser splits on, or a            *)
(* delimiter-free word; in teaser bodies a token is a single character.    *)
(***************************************************************************)
EXTENDS Integers, Sequences, FiniteSets

VARIABLES
    href,         \* window.location.href, as the browser serialises it
    hist,         \* the session history: its entries (URLs) and the index of the current one
    ops,          \* the history operations committed, oldest first
    calls,        \* the calls of setSearchUrlParameters: arguments and the live URL before
    page,         \* the search module's variables and the DOM state it reads and writes
    trace,        \* what the last event did: handler run, query requested, index lookup
    body,         \* a result's body text (result.doc.body), unescaped
    searchterms,  \* the query terms handed to makeTeaser
    teaser        \* what makeTeaser computed for them: its word list, window and text

worldVars == <<href, hist, ops, calls, page, trace>>
teaserVars == <<body, searchterms, teaser>>
vars == <<worldVars, teaserVars>>

(***************************************************************************)
(* String helpers (JavaScript String methods on token sequences).          *)
(***************************************************************************)

\* The first position of s holding a token of toks, Len(s)+1 when there is none.
RECURSIVE FirstIdxFrom(_, _, _)
FirstIdxFrom(s, toks, i) ==
    IF i > Len(s) THEN Len(s) + 1
    ELSE IF s[i] \in toks THEN i
    ELSE FirstIdxFrom(s, toks, i + 1)

FirstIdx(s, toks) == FirstIdxFrom(s, toks, 1)

\* s from position i to its end.
Tail_(s, i) == SubSeq(s, i, Len(s))

\* String.prototype.split with a one-token separator: always at least one piece.
RECURSIVE Split(_, _)
Split(s, sep) ==
    LET i == FirstIdx(s, {sep}) IN
    IF i > Len(s) THEN <<s>>
    ELSE <<SubSeq(s, 1, i - 1)>> \o Split(Tail_(s, i + 1), sep)

\* String.prototype.replace(tok, '') with a string pattern: the first occurrence only.
RemoveFirst(s, tok) ==
    LET i == FirstIdx(s, {tok}) IN
    IF i > Len(s) THEN s ELSE SubSeq(s, 1, i - 1) \o Tail_(s, i + 1)

\* Every token of s equal to from replaced by the token to.
ReplaceAll(s, from, to) == [i \in 1..Len(s) |-> IF s[i] = from THEN to ELSE s[i]]

RECURSIVE Concat(_)
Concat(ss) == IF ss = <<>> THEN <<>> ELSE Head(ss) \o Concat(Tail(ss))

\* Array.prototype.join of strings with a one-token separator.
RECURSIVE Join(_, _)
Join(ss, sep) ==
    IF ss = <<>> THEN <<>>
    ELSE IF Len(ss) = 1 THEN Head(ss)
    ELSE Head(ss) \o <<sep>> \o Join(Tail(ss), sep)

(***************************************************************************)
(* The browser: an anchor element's view of a URL (a.href = url) and the   *)
(* serialisation of a URL handed to the history.                           *)
(***************************************************************************)

\* The URL parser percent-encodes a space wherever it stands in a URL.
BrowserEncode(url) == ReplaceAll(url, " ", "%20")

\* The fields once the URL is cut at its delimiters.  A query or fragment that
\* is empty reads as the empty string, without its "?" or "#".
AnchorFields(protocol, hostname, port, path, qs) ==
    LET h     == FirstIdx(qs, {"#"})
        query == SubSeq(qs, 1, h - 1)
        frag  == Tail_(qs, h)
    IN  [ protocol |-> protocol,
          hostname |-> hostname,
          port     |-> IF port = <<"80">> /\ protocol = <<"http", ":">>
                       THEN <<>> ELSE port,
          pathname |-> IF path = <<>> THEN <<"/">> ELSE path,
          search   |-> IF Len(query) <= 1 THEN <<>> ELSE query,
          hash     |-> IF Len(frag) <= 1 THEN <<>> ELSE frag ]

\* host:port, then the path up to the query or the fragment.
AnchorPath(protocol, auth, after) ==
    LET c == FirstIdx(auth, {":"})
        q == FirstIdx(after, {"?", "#"})
    IN  AnchorFields(protocol, SubSeq(auth, 1, c - 1), Tail_(auth, c + 1),
                     SubSeq(after, 1, q - 1), Tail_(after, q))

\* The authority ends at the first "/", "?" or "#" after "scheme://".
AnchorAuthority(protocol, rest) ==
    LET e == FirstIdx(rest, {"/", "?", "#"})
    IN  AnchorPath(protocol, SubSeq(rest, 1, e - 1), Tail_(rest, e))

\* The scheme ends at the first ":".
AnchorScheme(url) ==
    LET p == FirstIdx(url, {":"})
    IN  AnchorAuthority(SubSeq(url, 1, p), Tail_(url, p + 3))

\* The anchor element after a.href = url0: a.protocol, a.hostname, a.port,
\* a.pathname, a.search, a.hash of an absolute URL
\* scheme://authority/path?query#fragment.
Anchor(url0) == AnchorScheme(BrowserEncode(url0))

(***************************************************************************)
(* URL codec.                                                              *)
(***************************************************************************)

URL_SEARCH_PARAM == <<"search">>
URL_MARK_PARAM == <<"highlight">>

\* A JavaScript value that is a string or undefined.
Undefined == [undef |-> TRUE, str |-> <<>>]
Str(s) == [undef |-> FALSE, str |-> s]

\* String concatenation turns undefined into the text "undefined".
StringOf(v) == IF v.undef THEN <<"undefined">> ELSE v.str

\* An object with string keys is a sequence of <<key, value>> in insertion order.
HasOwnProperty(obj, k) == \E i \in 1..Len(obj) : obj[i][1] = k

Get(obj, k) ==
    IF HasOwnProperty(obj, k)
    THEN obj[CHOOSE i \in 1..Len(obj) : obj[i][1] = k][2]
    ELSE Undefined

\* obj[k] = v: an existing key keeps its place.
Put(obj, k, v) ==
    IF HasOwnProperty(obj, k)
    THEN [i \in 1..Len(obj) |-> IF obj[i][1] = k THEN <<k, v>> ELSE obj[i]]
    ELSE Append(obj, <<k, v>>)

\* delete obj[k]
Delete(obj, k) == SelectSeq(obj, LAMBDA kv : kv[1] # k)

\* s[1] of s = seg.split('='): undefined when the segment holds no "=".
SegmentValue(s) == IF Len(s) >= 2 THEN Str(s[2]) ELSE Undefined

\* The loop of parseURL over the segments of the query string.
RECURSIVE ParseSegments(_, _)
ParseSegments(seg, ret) ==
    IF seg = <<>> THEN ret
    ELSE IF Head(seg) = <<>> THEN ParseSegments(Tail(seg), ret)
    ELSE LET s == Split(Head(seg), "=")
         IN  ParseSegments(Tail(seg), Put(ret, s[1], SegmentValue(s)))

\* The object parseURL returns for the anchor a.
UrlObject(a) ==
    [ protocol |-> RemoveFirst(a.protocol, ":"),
      host     |-> a.hostname,
      port     |-> a.port,
      params   |-> ParseSegments(
                       Split(IF a.search # <<>> /\ Head(a.search) = "?"
                             THEN Tail(a.search) ELSE a.search, "&"),
                       <<>>),
      hash     |-> RemoveFirst(a.hash, "#"),
      path     |-> IF a.pathname # <<>> /\ Head(a.pathname) # "/"
                   THEN <<"/">> \o a.pathname ELSE a.pathname ]

parseURL(url) == UrlObject(Anchor(url))

\* The for-in loop of renderURL over the parameters.
RECURSIVE RenderParams(_, _)
RenderParams(params, joiner) ==
    IF params = <<>> THEN <<>>
    ELSE <<joiner>> \o Head(params)[1] \o <<"=">> \o StringOf(Head(params)[2])
         \o RenderParams(Tail(params), "&")

renderURL(urlobject) ==
    urlobject.protocol \o <<":", "/", "/">> \o urlobject.host
    \o (IF urlobject.port # <<>> THEN <<":">> \o urlobject.port ELSE <<>>)
    \o urlobject.path
    \o RenderParams(urlobject.params, "?")
    \o (IF urlobject.hash # <<>> THEN <<"#">> \o urlobject.hash ELSE <<>>)

\* The parameters as a mapping: the set of its <<key, value>> pairs.
ParamSet(params) == {params[i] : i \in 1..Len(params)}

\* Two UrlStates agree on protocol, host, port, path, params and hash.
FieldEqual(u, v) ==
    /\ u.protocol = v.protocol
    /\ u.host = v.host
    /\ u.port = v.port
    /\ u.path = v.path
    /\ ParamSet(u.params) = ParamSet(v.params)
    /\ u.hash = v.hash

(***************************************************************************)
(* The world a handler runs in, and the page as constructed.               *)
(***************************************************************************)

World == [href |-> href, hist |-> hist, ops |-> ops, calls |-> calls,
          page |-> page, trace |-> trace]

Becomes(w) ==
    /\ href' = w.href
    /\ hist' = w.hist
    /\ ops' = w.ops
    /\ calls' = w.calls
    /\ page' = w.page
    /\ trace' = w.trace

None == [some |-> FALSE, val |-> <<>>]
Some(v) == [some |-> TRUE, val |-> v]

DEFAULT_TEASER_WORD_COUNT == 30
DEFAULT_LIMIT_RESULTS == 30

\* The module's variables as declared, and the DOM before any handler ran.
PageInit ==
    [ loadState           |-> "loading",   \* the request of init() is in flight
      searchindex         |-> "null",
      searchoptions       |-> [teaser_word_count |-> DEFAULT_TEASER_WORD_COUNT,
                               limit_results     |-> DEFAULT_LIMIT_RESULTS],
      registered          |-> FALSE,       \* the event listeners are installed
      current_searchterm  |-> <<>>,
      searchbar_value     |-> <<>>,
      focused             |-> FALSE,       \* searchbar === document.activeElement
      active              |-> FALSE,       \* searchbar.classList has "active"
      searchbar_outer     |-> "",          \* style.display
      searchresults_outer |-> "",
      menu_title          |-> "",
      searchicon          |-> "",
      searchresults       |-> <<>>,        \* the <li> children
      searchresults_header |-> None,
      marked              |-> None ]       \* the words marker.mark was last given

\* KeyboardFocusState: Unfocused, SearchbarFocused, ResultFocused(index).
Unfocused == [name |-> "Unfocused", index |-> 0]
SearchbarFocused == [name |-> "SearchbarFocused", index |-> 0]
ResultFocused(i) == [name |-> "ResultFocused", index |-> i]

TraceInit ==
    [ event      |-> "none",
      handled    |-> FALSE,    \* a handler of the search module ran
      threw      |-> FALSE,    \* it ended in an exception
      query      |-> None,     \* the term doSearch was called with
      lookups    |-> 0,        \* index lookups it made
      lastQuery  |-> None,     \* the term of the latest doSearch call so far
      runLookups |-> 0,        \* lookups made for the latest run of equal terms
      key        |-> None,     \* the key of a keydown event
      refining   |-> FALSE ]   \* a keyup was handled, and since then no Escape
                               \* was pressed and no URL was loaded or navigated to

(***************************************************************************)
(* Search/URL state synchroniser.                                          *)
(***************************************************************************)

PUSH == "push"
REPLACE == "replace"
PUSH_IF_NEW == "push_if_new_search_else_replace"
Actions == {PUSH, REPLACE, PUSH_IF_NEW}

\* The URL object after the branch on the term and the action.
\* As SearchUrl, but an empty term always removes the search key.
SearchUrl_DeleteWhenEmpty(url, searchterm, action) ==
    IF searchterm # <<>>
    THEN [url EXCEPT !.params = Delete(Put(@, URL_SEARCH_PARAM, Str(searchterm)),
                                       URL_MARK_PARAM),
                     !.hash = <<>>]
    ELSE [url EXCEPT !.params = Delete(@, URL_SEARCH_PARAM)]

SearchUrl(url, searchterm, action) ==
    IF searchterm # <<>> \/ action = PUSH_IF_NEW
    THEN [url EXCEPT !.params = Delete(Put(@, URL_SEARCH_PARAM, Str(searchterm)),
                                       URL_MARK_PARAM),
                     !.hash = <<>>]
    ELSE [url EXCEPT !.params = Delete(@, URL_SEARCH_PARAM)]

CommitOp_AlwaysPush(action, first_search) ==
    IF action = PUSH \/ action = PUSH_IF_NEW THEN "push"
    ELSE IF action = REPLACE THEN "replace"
    ELSE "none"

\* Which history method the call ends in: pushState, replaceState or neither.
CommitOp(action, first_search) ==
    IF action = PUSH \/ (action = PUSH_IF_NEW /\ first_search) THEN "push"
    ELSE IF action = REPLACE \/ (action = PUSH_IF_NEW /\ ~first_search) THEN "replace"
    ELSE "none"

\* history.pushState / history.replaceState: the entry, the live URL and the log.
Commit(w, op, url) ==
    IF op = "push"
    THEN [w EXCEPT !.href = BrowserEncode(url),
                   !.hist = [entries |-> Append(SubSeq(@.entries, 1, @.idx), BrowserEncode(url)),
                             idx     |-> @.idx + 1],
                   !.ops  = Append(@, op)]
    ELSE IF op = "replace"
    THEN [w EXCEPT !.href = BrowserEncode(url),
                   !.hist.entries[w.hist.idx] = BrowserEncode(url),
                   !.ops  = Append(@, op)]
    ELSE w

\* setSearchUrlParameters(searchterm, action) in the world w.
setSearchUrlParameters(w, searchterm, action) ==
    LET url          == parseURL(w.href)
        first_search == ~HasOwnProperty(url.params, URL_SEARCH_PARAM)
        logged       == [w EXCEPT !.calls = Append(@, [term |-> searchterm,
                                                       action |-> action,
                                                       before |-> w.href])]
    IN  Commit(logged, CommitOp(action, first_search),
               renderURL(SearchUrl(url, searchterm, action)))

(***************************************************************************)
(* Teaser generator.                                                       *)
(***************************************************************************)

\* escapeHTML: & < > ' " become entities.
EscapeChar(c) ==
    CASE c = "&"  -> <<"&", "a", "m", "p", ";">>
      [] c = "<"  -> <<"&", "l", "t", ";">>
      [] c = ">"  -> <<"&", "g", "t", ";">>
      [] c = "\"" -> <<"&", "#", "3", "4", ";">>
      [] c = "'"  -> <<"&", "#", "3", "9", ";">>
      [] OTHER    -> <<c>>

escapeHTML(s) == Concat([i \in 1..Len(s) |-> EscapeChar(s[i])])

\* body.substring(from, to) with 0-based offsets.
Substring(s, from, to) == SubSeq(s, from + 1, to)

StartsWith(w, p) == Len(p) <= Len(w) /\ SubSeq(w, 1, Len(p)) = p

\* The first 0-based offset at or after i where sep stands in s, Len(s) when nowhere.
RECURSIVE IndexOfFrom(_, _, _)
IndexOfFrom(s, sep, i) ==
    IF i + Len(sep) > Len(s) THEN Len(s)
    ELSE IF Substring(s, i, i + Len(sep)) = sep THEN i
    ELSE IndexOfFrom(s, sep, i + 1)

\* String.prototype.split with a separator of one or more characters.
RECURSIVE SplitOn(_, _)
SplitOn(s, sep) ==
    LET i == IndexOfFrom(s, sep, 0) IN
    IF i >= Len(s) THEN <<s>>
    ELSE <<Substring(s, 0, i)>> \o SplitOn(Substring(s, i + Len(sep), Len(s)), sep)

\* elasticlunr.stemmer (Porter), as far as it shows on words over d and s:
\* words shorter than three letters are kept, a final s after a letter other
\* than s is dropped.
stemmer(w) ==
    IF Len(w) >= 3 /\ w[Len(w)] = "s" /\ w[Len(w) - 1] # "s"
    THEN SubSeq(w, 1, Len(w) - 1)
    ELSE w

searchterm_weight == 40
first_word_weight == 8
normal_word_weight == 2

\* The stemmed word starts with some stemmed search term.
Matches(word, stemmed_searchterms) ==
    \E i \in 1..Len(stemmed_searchterms) :
        StartsWith(stemmer(word), stemmed_searchterms[i])

\* As WeighWords, but value is not reset to 2 after a word that matched.
RECURSIVE WeighWords_NoResetAfterMatch(_, _, _, _, _)
WeighWords_NoResetAfterMatch(words, value, index, stemmed_searchterms, weighted) ==
    IF words = <<>> THEN [weighted |-> weighted, index |-> index]
    ELSE LET word == Head(words)
             m    == Matches(word, stemmed_searchterms)
             v    == IF m THEN searchterm_weight ELSE value
         IN  IF Len(word) > 0
             THEN WeighWords_NoResetAfterMatch(
                      Tail(words), IF m THEN value ELSE normal_word_weight,
                      index + Len(word) + 1, stemmed_searchterms,
                      Append(weighted, <<word, v, index>>))
             ELSE WeighWords_NoResetAfterMatch(
                      Tail(words), value, index + Len(word) + 1,
                      stemmed_searchterms, weighted)

\* The inner loop of makeTeaser over the words of one sentence: value is the
\* weight the next word gets unless it matches, index the offset reached.
RECURSIVE WeighWords(_, _, _, _, _)
WeighWords(words, value, index, stemmed_searchterms, weighted) ==
    IF words = <<>> THEN [weighted |-> weighted, index |-> index]
    ELSE LET word == Head(words)
             v    == IF Matches(word, stemmed_searchterms)
                     THEN searchterm_weight ELSE value
         IN  IF Len(word) > 0
             THEN WeighWords(Tail(words), normal_word_weight, index + Len(word) + 1,
                             stemmed_searchterms, Append(weighted, <<word, v, index>>))
             ELSE WeighWords(Tail(words), value, index + Len(word) + 1,
                             stemmed_searchterms, weighted)

\* As WeighSentences, but without the step over the second character of ". ".
RECURSIVE WeighSentences_OneCharBoundary(_, _, _, _)
WeighSentences_OneCharBoundary(sentences, index, stemmed_searchterms, weighted) ==
    IF sentences = <<>> THEN weighted
    ELSE LET r == WeighWords(SplitOn(Head(sentences), <<" ">>), first_word_weight,
                             index, stemmed_searchterms, weighted)
         IN  WeighSentences_OneCharBoundary(Tail(sentences), r.index,
                                            stemmed_searchterms, r.weighted)

\* The outer loop over the sentences: each starts with value 8 and ends by
\* stepping over the second character of the ". " it was cut at.
RECURSIVE WeighSentences(_, _, _, _)
WeighSentences(sentences, index, stemmed_searchterms, weighted) ==
    IF sentences = <<>> THEN weighted
    ELSE LET r == WeighWords(SplitOn(Head(sentences), <<" ">>), first_word_weight,
                             index, stemmed_searchterms, weighted)
         IN  WeighSentences(Tail(sentences), r.index + 1, stemmed_searchterms, r.weighted)

\* weighted: <<word, weight, index_in_document>> for every non-empty word.
Weighted(escaped, terms) ==
    WeighSentences(SplitOn(escaped, <<".", " ">>), 0,
                   [i \in 1..Len(terms) |-> stemmer(terms[i])], <<>>)

Min(a, b) == IF a < b THEN a ELSE b

\* window_weight by the running sum: drop the word leaving, add the one entering.
RECURSIVE SlideWindows(_, _, _, _, _)
SlideWindows(weighted, window_size, wordindex, cur_sum, window_weight) ==
    IF wordindex >= Len(weighted) - window_size THEN window_weight
    ELSE LET next == cur_sum - weighted[wordindex + 1][2]
                             + weighted[wordindex + window_size + 1][2]
         IN  SlideWindows(weighted, window_size, wordindex + 1, next,
                          Append(window_weight, next))

RECURSIVE SumFirst(_, _)
SumFirst(weighted, n) == IF n = 0 THEN 0 ELSE SumFirst(weighted, n - 1) + weighted[n][2]

WindowWeights(weighted, window_size) ==
    LET first == SumFirst(weighted, window_size)
    IN  SlideWindows(weighted, window_size, 0, first, <<first>>)

\* As ScanBackwards, but a window as heavy as the best replaces it.
RECURSIVE ScanBackwards_NonStrict(_, _, _, _)
ScanBackwards_NonStrict(window_weight, i, max_sum, max_sum_window_index) ==
    IF i < 0 THEN max_sum_window_index
    ELSE IF window_weight[i + 1] >= max_sum
         THEN ScanBackwards_NonStrict(window_weight, i - 1, window_weight[i + 1], i)
         ELSE ScanBackwards_NonStrict(window_weight, i - 1, max_sum, max_sum_window_index)

\* The backward scan: i is 0-based, a window replaces the best only when
\* strictly heavier.
RECURSIVE ScanBackwards(_, _, _, _)
ScanBackwards(window_weight, i, max_sum, max_sum_window_index) ==
    IF i < 0 THEN max_sum_window_index
    ELSE IF window_weight[i + 1] > max_sum
         THEN ScanBackwards(window_weight, i - 1, window_weight[i + 1], i)
         ELSE ScanBackwards(window_weight, i - 1, max_sum, max_sum_window_index)

\* As WindowIndex, but the scan is skipped: always the first window.
WindowIndex_FirstWindow(weighted, window_weight) == 0

\* max_sum_window_index (0-based).
WindowIndex(weighted, window_weight) ==
    LET searchterm_found == \E k \in 1..Len(weighted) : weighted[k][2] = searchterm_weight
    IN  IF searchterm_found
        THEN ScanBackwards(window_weight, Len(window_weight) - 1, 0, 0)
        ELSE 0

EM_START == "<em>"
EM_END == "</em>"

\* As Emphasised, but every word heavier than a normal one is wrapped.
Emphasised_AnyHeavyWord(word) == word[2] > normal_word_weight

\* Whether a word of the window is wrapped in <em>.
Emphasised(word) == word[2] = searchterm_weight

\* The loop that builds teaser_split for the words i .. last (1-based).
RECURSIVE TeaserSplit(_, _, _, _, _)
TeaserSplit(escaped, weighted, i, last, index) ==
    IF i > last THEN <<>>
    ELSE LET word == weighted[i]
             gap  == IF index < word[3] THEN Substring(escaped, index, word[3]) ELSE <<>>
             end  == word[3] + Len(word[1])
         IN  gap
             \o (IF Emphasised(word) THEN <<EM_START>> ELSE <<>>)
             \o Substring(escaped, word[3], end)
             \o (IF Emphasised(word) THEN <<EM_END>> ELSE <<>>)
             \o TeaserSplit(escaped, weighted, i + 1, last, end)

\* makeTeaser(body, searchterms) on an escaped body: the text returned, with
\* the word list and the window it was cut from.
makeTeaser(escaped, terms, word_count) ==
    LET weighted    == Weighted(escaped, terms)
        window_size == Min(Len(weighted), word_count)
        start       == WindowIndex(weighted, WindowWeights(weighted, window_size))
    IN  IF Len(weighted) = 0
        THEN [done |-> TRUE, weighted |-> weighted, window_size |-> 0, start |-> 0,
              text |-> escaped]
        ELSE [done |-> TRUE, weighted |-> weighted, window_size |-> window_size,
              start |-> start,
              text |-> TeaserSplit(escaped, weighted, start + 1, start + window_size,
                                   weighted[start + 1][3])]

NoTeaser == [done |-> FALSE, weighted |-> <<>>, window_size |-> 0, start |-> 0, text |-> <<>>]

(***************************************************************************)
(* The external index, and the searches and documents of the model.        *)
(***************************************************************************)

\* The words of the indexed documents, in ranking order.
DocWords == << {<<"foo">>}, {<<"foo">>, <<"bar">>}, {<<"foo">>, <<"baz">>} >>

\* result.ref of the documents: a page of the book, with or without an anchor.
DocRefs ==
    << <<"one.html">>, <<"two.html", "#", "sec">>, <<"three.html", "#", "sec">> >>

\* The page is in the root directory of the book.
path_to_root == <<>>

\* searchindex.search(term, options) with bool AND: the documents holding
\* every word of the term, best first.
IndexSearch(term) ==
    LET ws == {w \in {Split(term, " ")[i] : i \in 1..Len(Split(term, " "))} : w # <<>>}
    IN  IF ws = {} THEN <<>>
        ELSE SelectSeq([d \in 1..Len(DocWords) |-> d], LAMBDA d : ws \subseteq DocWords[d])

(***************************************************************************)
(* Query executor and the handlers of the search module.                   *)
(***************************************************************************)

SEARCH_HOTKEY_KEYCODE == 83
ESCAPE_KEYCODE == 27
DOWN_KEYCODE == 40
UP_KEYCODE == 38
SELECT_KEYCODE == 13

\* String.prototype.trim
RECURSIVE TrimLeft(_)
TrimLeft(s) == IF s # <<>> /\ Head(s) = " " THEN TrimLeft(Tail(s)) ELSE s

RECURSIVE TrimRight(_)
TrimRight(s) ==
    IF s # <<>> /\ s[Len(s)] = " " THEN TrimRight(SubSeq(s, 1, Len(s) - 1)) ELSE s

Trim(s) == TrimRight(TrimLeft(s))

\* decodeURIComponent on one token: an escape becomes its character.
DecodeToken(t) ==
    CASE t = "%20" -> " "
      [] t = "%26" -> "&"
      [] t = "%3D" -> "="
      [] t = "%23" -> "#"
      [] t = "%2B" -> "+"
      [] t = "%25" -> "%"
      [] OTHER     -> t

\* decodeURIComponent throws URIError on a "%" that starts no escape.
Decodable(s) == \A i \in 1..Len(s) : s[i] # "%"

decodeURIComponent(s) == [i \in 1..Len(s) |-> DecodeToken(s[i])]

\* The ghost record of a doSearch call: the term, and whether the index was asked.
NoteQuery(w, searchterm, looked) ==
    LET n    == IF looked THEN 1 ELSE 0
        same == w.trace.lastQuery = Some(searchterm)
    IN  [w EXCEPT !.trace.query      = Some(searchterm),
                  !.trace.lookups    = @ + n,
                  !.trace.lastQuery  = Some(searchterm),
                  !.trace.runLookups = Min(IF same THEN @ + n ELSE n, 2)]

\* The "Don't search the same twice" test of doSearch.
SameAsCurrent_Never(w, searchterm) == FALSE

SameAsCurrent(w, searchterm) == w.page.current_searchterm = searchterm

ResultCount_Uncapped(results, limit_results) == Len(results)

\* Math.min(results.length, searchoptions.limit_results)
ResultCount(results, limit_results) == Min(Len(results), limit_results)

\* The href of the link formatSearchResult writes: the array of terms is
\* concatenated to a string, which joins its elements with ",".
ResultHref(ref, terms) ==
    LET url == Split(ref, "#")
    IN  path_to_root \o url[1] \o <<"?">> \o URL_MARK_PARAM \o <<"=">>
        \o Join(terms, ",") \o <<"#">>
        \o (IF Len(url) = 1 THEN <<>> ELSE url[2])

doSearch(w, searchterm) ==
    IF SameAsCurrent(w, searchterm) THEN NoteQuery(w, searchterm, FALSE)
    ELSE LET w1 == [w EXCEPT !.page.current_searchterm = searchterm] IN
         IF w1.page.searchindex = "null" THEN NoteQuery(w1, searchterm, FALSE)
         ELSE LET results     == IndexSearch(searchterm)
                  resultcount == ResultCount(results, w1.page.searchoptions.limit_results)
                  terms       == Split(searchterm, " ")
              IN  NoteQuery(
                      [w1 EXCEPT
                          !.page.searchresults_header = Some(<<resultcount, searchterm>>),
                          !.page.searchresults =
                              [i \in 1..resultcount |->
                                  [doc |-> results[i], searchterms |-> terms,
                                   href |-> ResultHref(DocRefs[results[i]], terms),
                                   focus |-> FALSE]],
                          !.page.searchresults_outer = "block"],
                      searchterm, TRUE)

searchbarKeyUpHandler(w) ==
    LET searchterm == Trim(w.page.searchbar_value)
        w1 == IF searchterm # <<>>
              THEN doSearch([w EXCEPT !.page.active = TRUE], searchterm)
              ELSE [w EXCEPT !.page.active = FALSE,
                             !.page.searchresults_outer = "none",
                             !.page.searchresults = <<>>]
        w2 == setSearchUrlParameters(w1, searchterm, PUSH_IF_NEW)
    IN  [w2 EXCEPT !.page.marked = None]

Threw(w) == [w EXCEPT !.trace.threw = TRUE]

\* An element that gets display none while it has the focus: the browser may
\* keep it as document.activeElement or move the focus to the body.
HiddenFocus(w) == {w.page.focused, FALSE}

\* As HasSearchRequest, but without the test that the key is the object's own.
HasSearchRequest_NoOwnCheck(params) == Get(params, URL_SEARCH_PARAM) # Str(<<>>)

\* url.params.hasOwnProperty(URL_SEARCH_PARAM) && url.params[URL_SEARCH_PARAM] != ""
HasSearchRequest(params) ==
    HasOwnProperty(params, URL_SEARCH_PARAM) /\ Get(params, URL_SEARCH_PARAM) # Str(<<>>)

\* doSearchOrMarkFromUrl; kept tells whether a search bar hidden by it keeps the focus.
doSearchOrMarkFromUrl(w, kept) ==
    LET url    == parseURL(w.href)
        param  == Get(url.params, URL_SEARCH_PARAM)
        raw    == ReplaceAll(StringOf(param), "+", "%20")
        mark   == Get(url.params, URL_MARK_PARAM)
        marking(x) ==
            IF HasOwnProperty(url.params, URL_MARK_PARAM)
            THEN IF mark.undef THEN Threw(x)
                 ELSE [x EXCEPT !.page.marked = Some(Split(mark.str, " "))]
            ELSE x
    IN  IF HasSearchRequest(url.params)
        THEN IF Decodable(raw)
             THEN marking(searchbarKeyUpHandler(
                      [w EXCEPT !.page.searchbar_outer = "",
                                !.page.searchbar_value = decodeURIComponent(raw)]))
             ELSE Threw([w EXCEPT !.page.searchbar_outer = ""])
        ELSE marking([w EXCEPT !.page.searchbar_outer = "none",
                               !.page.focused = kept])

unfocusSearchbar_Noop(w) == w

\* unfocusSearchbar: a temporary input takes the focus and is removed.
unfocusSearchbar(w) == [w EXCEPT !.page.focused = FALSE]

ModifierHeld_Never(e) == FALSE

\* e.altKey || e.ctrlKey || e.metaKey || e.shiftKey
ModifierHeld(e) == e.modifier

EscapeAction_AlwaysReplace(value) == REPLACE

\* (searchbar.value.trim() != "") ? "push" : "replace"
EscapeAction(value) == IF Trim(value) # <<>> THEN PUSH ELSE REPLACE

\* As FocusFirstResult, but the first result item, if any, gets the class "focus".
FocusFirstResult_FirstItem(w) ==
    IF w.page.searchresults = <<>> THEN w
    ELSE [w EXCEPT !.page.searchresults[1].focus = TRUE]

\* searchresults.children('li').first().classList.add("focus"): searchresults
\* is a DOM element and has no method children, the call raises a TypeError.
FocusFirstResult(w) == Threw(w)

\* globalKeyHandler(e) for e = [keyCode, modifier].  The calls
\* searchresults.children('li') and search.searchresults.find(...) are made on
\* a DOM element and on undefined: both raise a TypeError.
globalKeyHandler(w, e) ==
    IF ModifierHeld(e) THEN w
    ELSE IF e.keyCode = ESCAPE_KEYCODE
    THEN LET w1 == setSearchUrlParameters(
                       [w EXCEPT !.page.active = FALSE], <<>>,
                       EscapeAction(w.page.searchbar_value))
             w2 == IF w1.page.focused THEN unfocusSearchbar(w1) ELSE w1
         IN  [w2 EXCEPT !.page.searchbar_outer = "none", !.page.marked = None]
    ELSE IF ~w.page.focused /\ e.keyCode = SEARCH_HOTKEY_KEYCODE
    THEN [w EXCEPT !.page.searchbar_outer = "", !.page.focused = TRUE]
    ELSE IF w.page.focused /\ e.keyCode = DOWN_KEYCODE
    THEN FocusFirstResult(unfocusSearchbar(w))
    ELSE IF ~w.page.focused
            /\ e.keyCode \in {DOWN_KEYCODE, UP_KEYCODE, SELECT_KEYCODE}
    THEN Threw(w)
    ELSE w

showSearchBar(w, yes) ==
    IF yes
    THEN [w EXCEPT !.page.searchbar_outer = "block",
                   !.page.searchresults_outer = "block",
                   !.page.menu_title = "none"]
    ELSE [w EXCEPT !.page.searchbar_outer = "none",
                   !.page.searchresults_outer = "none",
                   !.page.menu_title = "block"]

\* searchIconClickHandler: searchbar.focus() focuses the bar only when it is shown.
searchIconClickHandler(w, kept) ==
    LET yes == w.page.searchbar_outer = "none"
        w1  == showSearchBar(w, yes)
    IN  [w1 EXCEPT !.page.focused = IF yes THEN TRUE ELSE kept]

\* Whether the listeners of the search module are installed.
Registered_AtInit(w) == TRUE

Registered(w) == w.page.registered

\* request.onload for a response [status, doc, options].
onload(w, response, kept) ==
    IF response.status >= 200 /\ response.status < 400
    THEN IF response.doc = "malformed"            \* JSON.parse throws
         THEN Threw([w EXCEPT !.page.loadState = "malformed"])
         ELSE IF response.doc = "disabled"
         THEN [w EXCEPT !.page.loadState = "disabled", !.page.searchicon = "none"]
         ELSE IF response.doc = "badindex"        \* elasticlunr.Index.load throws
         THEN Threw([w EXCEPT !.page.loadState = "malformed",
                              !.page.searchoptions = response.options])
         ELSE doSearchOrMarkFromUrl(
                  [w EXCEPT !.page.loadState = "loaded",
                            !.page.searchoptions = response.options,
                            !.page.searchindex = "index",
                            !.page.registered = TRUE],
                  kept)
    ELSE [w EXCEPT !.page.loadState = "failed"]

(***************************************************************************)
(* Inputs of the synchroniser: live URLs and search terms.                 *)
(***************************************************************************)

MaxParams == 1
MaxCalls == 2

SeqsUpTo(S, n) == UNION {[1..m -> S] : m \in 0..n}

UrlPrefix == <<"http", ":", "/", "/", "localhost", ":", "3000", "/", "book", "/", "index.html">>
ParamKeys == {URL_SEARCH_PARAM, URL_MARK_PARAM, <<"x">>}
\* A query segment: a key alone, or key=foo.
ParamSegments == ParamKeys \cup {k \o <<"=", "foo">> : k \in ParamKeys}
Fragments == {<<>>, <<"#", "sec">>}

UrlInputs ==
    { UrlPrefix \o (IF segs = <<>> THEN <<>> ELSE <<"?">> \o Join(segs, "&")) \o f :
        segs \in SeqsUpTo(ParamSegments, MaxParams), f \in Fragments }

\* Trimmed search-box texts, the empty one included.
SyncTerms ==
    { <<>>, <<"foo">>, <<"foobar">>, <<"foo", " ", "bar">>, <<"a", "&", "b">> }

NoTeaserInput ==
    /\ body = <<>>
    /\ searchterms = <<>>
    /\ teaser = NoTeaser

InitSync ==
    /\ href \in UrlInputs
    /\ hist = [entries |-> <<href>>, idx |-> 1]
    /\ ops = <<>>
    /\ calls = <<>>
    /\ page = PageInit
    /\ trace = TraceInit
    /\ NoTeaserInput

\* One call of setSearchUrlParameters with any term and action.
CallSetSearchUrlParameters ==
    /\ Len(calls) < MaxCalls
    /\ \E t \in SyncTerms, a \in Actions : Becomes(setSearchUrlParameters(World, t, a))
    /\ UNCHANGED teaserVars

NextSync == CallSetSearchUrlParameters

SpecSync == InitSync /\ [][NextSync]_vars

(***************************************************************************)
(* Inputs of the teaser generator: bodies, term lists and word counts.     *)
(***************************************************************************)

MaxBodyLen == 5
MaxListRun == 7
MaxTeaserWordCount == 7

BodyChars == {"d", "s", " ", "."}

RECURSIVE Repeat(_, _)
Repeat(s, n) == IF n = 0 THEN <<>> ELSE s \o Repeat(s, n - 1)

\* A paragraph "d s s ..." of 1 + k words followed by j one-word sentences
\* ". s. s ...", as in an enumeration or a list of initials.
ListBody(k, j) == <<"d">> \o Repeat(<<" ", "s">>, k) \o Repeat(<<".", " ", "s">>, j)

ListBodies == {ListBody(k, j) : k \in 0..MaxListRun, j \in 0..MaxListRun}

\* Bodies with characters escapeHTML rewrites.
MarkupBodies ==
    { <<"<">>, <<"d", "<", " ", "s">>, <<"s", "&", "d", ".", " ", "d">>,
      <<"\"", "d", "\"", " ", "d", "'", "s">>, <<"d", " ", ">", " ", "d">> }

Bodies == SeqsUpTo(BodyChars, MaxBodyLen) \cup ListBodies \cup MarkupBodies

\* searchterm.split(' ') of a search text, and the empty list.
TermLists ==
    { <<>>, << <<"d">> >>, << <<"d", "d", "s">> >>, << <<"d">>, <<"s">> >>,
      << <<"s">>, <<>>, <<"d">> >> }

InitTeaser ==
    /\ body \in Bodies
    /\ searchterms \in TermLists
    /\ teaser = NoTeaser
    /\ \E n \in 1..MaxTeaserWordCount :
          page = [PageInit EXCEPT !.searchoptions.teaser_word_count = n]
    /\ href = UrlPrefix
    /\ hist = [entries |-> <<href>>, idx |-> 1]
    /\ ops = <<>>
    /\ calls = <<>>
    /\ trace = TraceInit

\* formatSearchResult: the teaser of the escaped body.
FormatSearchResult ==
    /\ ~teaser.done
    /\ teaser' = makeTeaser(escapeHTML(body), searchterms,
                            page.searchoptions.teaser_word_count)
    /\ UNCHANGED <<body, searchterms, worldVars>>

NextTeaser == FormatSearchResult

SpecTeaser == InitTeaser /\ [][NextTeaser]_vars

(***************************************************************************)
(* The page: the events of one page load and the handlers they reach.      *)
(***************************************************************************)

MaxHistory == 2
ResultLimit == 2

\* The URLs the page is opened at.
PageUrls ==
    { UrlPrefix,
      UrlPrefix \o <<"?", "search", "=", "foo">>,
      UrlPrefix \o <<"?", "highlight", "=", "foo", "#", "sec">> }

\* What the user leaves in the search box between two keyup events.
TypedTexts == { <<>>, <<"foo">>, <<"foo", " ">>, <<"bar">>, <<"foo", " ", "bar">> }

KeyCodes ==
    { SEARCH_HOTKEY_KEYCODE, ESCAPE_KEYCODE, DOWN_KEYCODE, UP_KEYCODE, SELECT_KEYCODE }

LoadedOptions == [teaser_word_count |-> DEFAULT_TEASER_WORD_COUNT, limit_results |-> ResultLimit]

\* The responses to the request for searchindex.json.
Responses ==
    { [status |-> 200, doc |-> d, options |-> LoadedOptions] :
          d \in {"enabled", "disabled", "malformed", "badindex"} }
    \cup { [status |-> 404, doc |-> "malformed", options |-> LoadedOptions] }

Init ==
    /\ href \in PageUrls
    /\ hist = [entries |-> <<href>>, idx |-> 1]
    /\ ops = <<>>
    /\ calls = <<>>
    /\ page = PageInit
    /\ trace = TraceInit
    /\ NoTeaserInput

\* The world as an event of the given kind finds it: the logs of the last
\* event are cleared.
Event(kind) ==
    [World EXCEPT !.ops = <<>>, !.calls = <<>>,
                  !.trace = [@ EXCEPT !.event = kind, !.handled = FALSE, !.threw = FALSE,
                                      !.query = None, !.lookups = 0, !.key = None,
                                      !.refining = @ /\ kind \notin {"load", "popstate"}]]

Handled(w) == [w EXCEPT !.trace.handled = TRUE]

\* The keyboard focus state the page is in: the search box has the input focus,
\* or a result item carries the class "focus", or neither.
FocusState(p) ==
    IF p.focused THEN SearchbarFocused
    ELSE IF \E i \in 1..Len(p.searchresults) : p.searchresults[i].focus
    THEN ResultFocused((CHOOSE i \in 1..Len(p.searchresults) : p.searchresults[i].focus) - 1)
    ELSE Unfocused

\* An event ends in the world w.
Ends(w) ==
    /\ Len(w.hist.entries) <= MaxHistory
    /\ Becomes(w)
    /\ UNCHANGED teaserVars

\* request.onload
LoadResponse ==
    /\ page.loadState = "loading"
    /\ \E response \in Responses, kept \in HiddenFocus(World) :
          LET w == onload(Event("load"), response, kept)
          IN  Ends(IF w.page.loadState = "loaded" THEN Handled(w) ELSE w)

\* The user clicks into the search box.
FocusSearchbar ==
    /\ ~page.focused
    /\ page.searchbar_outer # "none"
    /\ Ends([Event("focus") EXCEPT !.page.focused = TRUE])

\* The user clicks elsewhere on the page.
BlurSearchbar ==
    /\ page.focused
    /\ Ends([Event("blur") EXCEPT !.page.focused = FALSE])

\* keyup on the search box, the box then holding text.
KeyUp ==
    /\ page.focused
    /\ \E text \in TypedTexts :
          LET w == [Event("keyup") EXCEPT !.page.searchbar_value = text]
          IN  Ends(IF Registered(w)
                   THEN [Handled(searchbarKeyUpHandler(w)) EXCEPT !.trace.refining = TRUE]
                   ELSE w)

\* keydown on the document.
KeyDown ==
    \E keyCode \in KeyCodes, modifier \in BOOLEAN :
        LET e == [keyCode |-> keyCode, modifier |-> modifier]
            w == [Event("keydown") EXCEPT
                     !.trace.key = Some(e),
                     !.trace.refining = @ /\ ~(keyCode = ESCAPE_KEYCODE /\ ~modifier)]
        IN  Ends(IF Registered(w) THEN Handled(globalKeyHandler(w, e)) ELSE w)

\* click on the search icon.
ClickSearchIcon ==
    /\ page.searchicon # "none"
    /\ \E kept \in HiddenFocus(World) :
          LET w == Event("click")
          IN  Ends(IF Registered(w) THEN Handled(searchIconClickHandler(w, kept)) ELSE w)

\* The user goes back or forward in the session history: popstate.
HistoryTraverse ==
    \E d \in {-1, 1} :
        /\ hist.idx + d \in 1..Len(hist.entries)
        /\ \E kept \in HiddenFocus(World) :
              LET w == [Event("popstate") EXCEPT !.hist.idx = @ + d,
                                                !.href = hist.entries[hist.idx + d]]
              IN  Ends(IF Registered(w) THEN Handled(doSearchOrMarkFromUrl(w, kept)) ELSE w)

Next ==
    \/ LoadResponse
    \/ FocusSearchbar
    \/ BlurSearchbar
    \/ KeyUp
    \/ KeyDown
    \/ ClickSearchIcon
    \/ HistoryTraverse

Spec == Init /\ [][Next]_vars

(***************************************************************************)
(* The page opened at URLs of every shape, and terms with the characters   *)
(* that delimit a URL typed into the search box.                           *)
(***************************************************************************)

\* The URLs of PageUrls, and URLs whose search or highlight parameter has no
\* value, an empty one, an encoded one or a malformed escape.
SearchUrls ==
    PageUrls \cup
    { UrlPrefix \o <<"?">> \o q :
        q \in { <<"search">>,
                <<"search", "=">>,
                <<"search", "=", "%20">>,
                <<"search", "=", "foo", "+", "bar">>,
                <<"search", "=", "foo", "%20", "bar">>,
                <<"search", "=", "foo", "%">>,
                <<"search", "=", "foo", "&", "highlight", "=", "bar", "#", "sec">>,
                <<"highlight">> } }

\* Search-box texts with the characters + & = # % in them.
SpecialTexts ==
    { <<>>, <<"foo">>, <<"foo", " ", "bar">>, <<"foo", "+", "bar">>,
      <<"foo", "&", "bar">>, <<"foo", "=", "bar">>, <<"foo", "#", "bar">>,
      <<"foo", "%">> }

InitUrl ==
    /\ href \in SearchUrls
    /\ hist = [entries |-> <<href>>, idx |-> 1]
    /\ ops = <<>>
    /\ calls = <<>>
    /\ page = PageInit
    /\ trace = TraceInit
    /\ NoTeaserInput

\* keyup on the search box, the box then holding one of the special texts.
KeyUpSpecial ==
    /\ page.focused
    /\ \E text \in SpecialTexts :
          LET w == [Event("keyup") EXCEPT !.page.searchbar_value = text]
          IN  Ends(IF Registered(w)
                   THEN [Handled(searchbarKeyUpHandler(w)) EXCEPT !.trace.refining = TRUE]
                   ELSE w)

NextUrl ==
    \/ LoadResponse
    \/ FocusSearchbar
    \/ ClickSearchIcon
    \/ KeyUpSpecial
    \/ HistoryTraverse

SpecUrl == InitUrl /\ [][NextUrl]_vars

(***************************************************************************)
(* Reading a URL independently of parseURL, for stating the claims.        *)
(***************************************************************************)

\* The query segments of a URL: the text between "?" and "#", cut at "&".
QuerySegments(url) ==
    LET q == FirstIdx(url, {"?", "#"})
        h == FirstIdx(url, {"#"})
    IN  IF q > Len(url) \/ url[q] = "#" THEN <<>>
        ELSE SelectSeq(Split(SubSeq(url, q + 1, h - 1), "&"), LAMBDA sg : sg # <<>>)

SegKey(sg) == SubSeq(sg, 1, FirstIdx(sg, {"="}) - 1)

HasKey(url, k) ==
    LET segs == QuerySegments(url) IN \E i \in 1..Len(segs) : SegKey(segs[i]) = k

LastCall == calls[Len(calls)]

(***************************************************************************)
(* Claims on the URL codec and the synchroniser (under SpecSync).          *)
(***************************************************************************)

\* The parameters other than the keys of ks, as a mapping.
OtherParams(u, ks) == {kv \in ParamSet(u.params) : kv[1] \notin ks}

SameLocation(u, v) ==
    /\ u.protocol = v.protocol
    /\ u.host = v.host
    /\ u.port = v.port
    /\ u.path = v.path

\* C1: for every URL u, parse(render(parse(u))) is field-for-field equal to
\* parse(u): protocol, host, port, path, params and hash.
C1_RoundTrip ==
    LET p == parseURL(href) IN FieldEqual(parseURL(renderURL(p)), p)

\* The history operation the commit rule asks for.
ExpectedOp(c) ==
    IF c.action = PUSH THEN "push"
    ELSE IF c.action = REPLACE THEN "replace"
    ELSE IF HasKey(c.before, URL_SEARCH_PARAM) THEN "replace" ELSE "push"

\* C2: every call of setSearchUrlParameters commits exactly one history
\* operation: push for Push, replace for Replace, and for
\* PushIfNewSearchElseReplace a push when the live URL had no search key and a
\* replace when it had one; so a PushIfNewSearchElseReplace call right after
\* another one commits a replace.
C2_OneCommitPerCall ==
    /\ Len(ops) = Len(calls)
    /\ \A i \in 1..Len(calls) : ops[i] = ExpectedOp(calls[i])
    /\ \A i \in 1..(Len(calls) - 1) :
          calls[i].action = PUSH_IF_NEW /\ calls[i + 1].action = PUSH_IF_NEW
              => ops[i + 1] = "replace"

\* "foo" on a URL without a search key, then "foobar": push, then replace.
C2_Witness ==
    /\ Len(calls) = 2
    /\ calls[1].term = <<"foo">> /\ calls[1].action = PUSH_IF_NEW
    /\ ~HasKey(calls[1].before, URL_SEARCH_PARAM)
    /\ calls[2].term = <<"foobar">> /\ calls[2].action = PUSH_IF_NEW
    /\ ops = <<"push", "replace">>

\* C3: a call with a non-empty term, or with any term under
\* PushIfNewSearchElseReplace, commits a URL in which search is the given term
\* (as the browser serialises it), highlight is absent and the fragment is
\* empty, with protocol, host, port, path and every other parameter unchanged.
C3_SetsSearch ==
    calls # <<>> /\ (LastCall.term # <<>> \/ LastCall.action = PUSH_IF_NEW) =>
        LET u == parseURL(href)
            b == parseURL(LastCall.before)
        IN  /\ Get(u.params, URL_SEARCH_PARAM) = Str(BrowserEncode(LastCall.term))
            /\ ~HasOwnProperty(u.params, URL_MARK_PARAM)
            /\ u.hash = <<>>
            /\ SameLocation(u, b)
            /\ OtherParams(u, {URL_SEARCH_PARAM, URL_MARK_PARAM})
                 = OtherParams(b, {URL_SEARCH_PARAM, URL_MARK_PARAM})

\* C4: a call with the empty term under Push or Replace commits a URL without
\* a search key and changes nothing else: highlight, the fragment, every other
\* parameter and protocol, host, port and path stay as they were.
C4_ClearsSearchOnly ==
    calls # <<>> /\ LastCall.term = <<>> /\ LastCall.action \in {PUSH, REPLACE} =>
        LET u == parseURL(href)
            b == parseURL(LastCall.before)
        IN  /\ ~HasOwnProperty(u.params, URL_SEARCH_PARAM)
            /\ u.hash = b.hash
            /\ SameLocation(u, b)
            /\ OtherParams(u, {URL_SEARCH_PARAM}) = OtherParams(b, {URL_SEARCH_PARAM})

(***************************************************************************)
(* Claims on the teaser generator (under SpecTeaser).                      *)
(***************************************************************************)

Escaped == escapeHTML(body)
StemmedTerms == [i \in 1..Len(searchterms) |-> stemmer(searchterms[i])]
WordMatches(k) == Matches(teaser.weighted[k][1], StemmedTerms)
SomeWordMatches == \E k \in 1..Len(teaser.weighted) : WordMatches(k)

\* The weight of the window of the given size starting at the 0-based index i.
RECURSIVE WindowSum(_, _, _)
WindowSum(weighted, i, size) ==
    IF size = 0 THEN 0
    ELSE weighted[i + 1][2] + WindowSum(weighted, i + 1, size - 1)

\* C5: with windowSize = min(totalWords, teaserWordCount), if some word
\* matched a query term the selected window is the last one (largest start)
\* among those of maximum weight; if none matched it is the first window.
C5_WindowSelection ==
    teaser.done /\ Len(teaser.weighted) > 0 =>
        LET W      == teaser.weighted
            size   == Min(Len(W), page.searchoptions.teaser_word_count)
            starts == 0..(Len(W) - size)
        IN  /\ teaser.window_size = size
            /\ teaser.start \in starts
            /\ IF SomeWordMatches
               THEN /\ \A i \in starts :
                         WindowSum(W, i, size) <= WindowSum(W, teaser.start, size)
                    /\ \A i \in starts :
                         i > teaser.start =>
                             WindowSum(W, i, size) < WindowSum(W, teaser.start, size)
               ELSE teaser.start = 0

\* Two windows tie for the maximum and the later one is selected.
C5_Witness ==
    /\ teaser.done /\ SomeWordMatches /\ teaser.start > 0
    /\ \E i \in 0..(teaser.start - 1) :
          WindowSum(teaser.weighted, i, teaser.window_size)
            = WindowSum(teaser.weighted, teaser.start, teaser.window_size)

WindowHasMatch ==
    \E k \in (teaser.start + 1)..(teaser.start + teaser.window_size) :
        WordMatches(k) /\ teaser.weighted[k][2] = searchterm_weight

\* C6 as claimed: whenever some word of the body matches a query term, the
\* selected window contains a matching, emphasised word.
C6_TeaserContainsMatch ==
    teaser.done /\ SomeWordMatches => WindowHasMatch

\* C6 amended: whenever some word of the body matches and the window holds
\* at most 6 words, the selected window contains a matching, emphasised word.
C6_ShortWindowContainsMatch ==
    teaser.done /\ SomeWordMatches /\ teaser.window_size <= 6 => WindowHasMatch

\* A body whose first word does not match, cut to a later window that does.
C6_Witness ==
    /\ teaser.done /\ SomeWordMatches /\ teaser.window_size <= 6
    /\ teaser.start > 0 /\ ~WordMatches(1) /\ WindowHasMatch

\* The non-empty words of a sentence.
SentenceWords(sentence) == SelectSeq(SplitOn(sentence, <<" ">>), LAMBDA w : w # <<>>)

\* The weights the rule gives the words of one sentence.
SentenceWeights(sentence) ==
    LET ws == SentenceWords(sentence)
    IN  [p \in 1..Len(ws) |->
            IF Matches(ws[p], StemmedTerms) THEN 40 ELSE IF p = 1 THEN 8 ELSE 2]

\* C7: the words are the non-empty words of the sentences (cut at ". "), in
\* order; each weighs 40 if its stem starts with a stemmed query term, else 8
\* if it is the first non-empty word of its sentence, else 2.
C7_WordWeights ==
    teaser.done =>
        LET sentences == SplitOn(Escaped, <<".", " ">>)
            W         == teaser.weighted
        IN  /\ [k \in 1..Len(W) |-> W[k][1]]
                 = Concat([j \in 1..Len(sentences) |-> SentenceWords(sentences[j])])
            /\ [k \in 1..Len(W) |-> W[k][2]]
                 = Concat([j \in 1..Len(sentences) |-> SentenceWeights(sentences[j])])

\* A matching word opens a sentence and the word after it weighs 2, while
\* another sentence opens with a word weighing 8.
C7_Witness ==
    /\ teaser.done
    /\ \E k \in 1..(Len(teaser.weighted) - 1) :
          /\ teaser.weighted[k][2] = 40
          /\ teaser.weighted[k + 1][2] = 2
          /\ \/ k = 1
             \/ /\ teaser.weighted[k][3] >= 2
                /\ Substring(Escaped, teaser.weighted[k][3] - 2,
                             teaser.weighted[k][3]) = <<".", " ">>
    /\ \E k \in 1..Len(teaser.weighted) : teaser.weighted[k][2] = 8

StripMarkers(text) == SelectSeq(text, LAMBDA c : c \notin {EM_START, EM_END})

WordEnd(word) == word[3] + Len(word[1])

\* The k-th word of the window as the teaser shows it: the text since the
\* previous word, then the word, in markers iff it weighs 40.
ShownWord(k) ==
    LET W    == teaser.weighted
        word == W[teaser.start + k]
    IN  (IF k = 1 THEN <<>>
         ELSE Substring(Escaped, WordEnd(W[teaser.start + k - 1]), word[3]))
        \o (IF word[2] = 40 THEN <<EM_START>> \o word[1] \o <<EM_END>> ELSE word[1])

\* C8: the teaser without its markers is the escaped body from the start of
\* the window's first word to the end of its last; a word of the window is in
\* markers iff it weighs 40; a body without words is returned as escaped.
C8_TeaserText ==
    teaser.done =>
        LET W == teaser.weighted IN
        IF Len(W) = 0 THEN teaser.text = Escaped
        ELSE /\ StripMarkers(teaser.text)
                  = Substring(Escaped, W[teaser.start + 1][3],
                              WordEnd(W[teaser.start + teaser.window_size]))
             /\ teaser.text = Concat([k \in 1..teaser.window_size |-> ShownWord(k)])

\* A window with an emphasised word, a sentence-opening word that is not, and
\* more than one character between two of its words.
C8_Witness ==
    /\ teaser.done /\ teaser.window_size >= 2
    /\ \E k \in (teaser.start + 1)..(teaser.start + teaser.window_size) :
          teaser.weighted[k][2] = 40
    /\ \E k \in (teaser.start + 1)..(teaser.start + teaser.window_size) :
          teaser.weighted[k][2] = 8
    /\ \E k \in (teaser.start + 2)..(teaser.start + teaser.window_size) :
          teaser.weighted[k][3] > WordEnd(teaser.weighted[k - 1]) + 1
    /\ teaser.text # StripMarkers(teaser.text)

(***************************************************************************)
(* Query executor: caching and load gating, on the page session.           *)
(***************************************************************************)

\* The event that just ended called doSearch.
Queried == trace.query.some

\* C9: two doSearch calls with the same term and no call with another term
\* between them make one index lookup in all: the run of equal terms that ends
\* in any call has made exactly one lookup, and a call whose term is that of
\* the call before it makes no lookup and leaves the result list, its header
\* and current_searchterm as they were.
C9_QueryCaching ==
    [][ Queried' =>
          /\ trace'.runLookups = 1
          /\ trace.lastQuery = trace'.query =>
                /\ trace'.lookups = 0
                /\ page'.searchresults = page.searchresults
                /\ page'.searchresults_header = page.searchresults_header
                /\ page'.current_searchterm = page.current_searchterm ]_vars

\* C9 witness: a doSearch call that repeats the term of the call before it,
\* the results of the first call still being shown.
C9_Witness ==
    /\ Queried
    /\ trace.lookups = 0
    /\ trace.runLookups = 1
    /\ page.searchresults # <<>>

\* A handler of the search module ran, doSearch was entered or the index was asked.
SearchRan == trace.handled \/ Queried \/ trace.lookups > 0

IndexLoaded == page.loadState = "loaded" /\ page.searchindex = "index"

\* C10: a search handler runs, doSearch is entered and the index is asked only
\* with the index loaded from a successful, enabled response: in the load
\* event itself once the index is set, in any other event only when the load
\* had completed before it.
C10_LoadGating ==
    [][ SearchRan' =>
          /\ IndexLoaded'
          /\ trace'.event # "load" => IndexLoaded ]_vars

\* C10 witness: the user typed a term into the search box while the index was
\* still loading, and no handler ran.
C10_Witness ==
    /\ trace.event = "keyup"
    /\ page.searchbar_value # <<>>
    /\ page.loadState = "loading"
    /\ ~SearchRan


(***************************************************************************)
(* Index load outcomes and the rendered result list.                       *)
(***************************************************************************)

\* The load ended in a response outside the success range, or in an index
\* document with enable = false.
LoadDisabled(p) == p.loadState \in {"failed", "disabled"}

\* C11: once the load has ended in a status outside the success range or in a
\* document with enable = false, the search icon is hidden, no listener is
\* installed, no handler and no query runs, and from then on the URL, the
\* history and the load outcome stay as they are.
C11_DisabledLoad ==
    [][ LoadDisabled(page') =>
          /\ page'.searchicon = "none"
          /\ ~Registered(World')
          /\ ~SearchRan'
          /\ ops' = <<>>
          /\ LoadDisabled(page) =>
                /\ href' = href
                /\ hist' = hist
                /\ page'.loadState = page.loadState ]_vars

\* The rendered result list: the documents of the <li> items, in order.
RenderedDocs == [i \in 1..Len(page.searchresults) |-> page.searchresults[i].doc]

\* The first n elements of a sequence, or all of it.
Leading(seq, n) == SubSeq(seq, 1, IF Len(seq) < n THEN Len(seq) ELSE n)

\* C12: after an event whose query reached the index, the rendered list is the
\* leading min(number of index results, limit_results) results of the index's
\* ranking, in the same order.
C12_ResultCap ==
    trace.lookups > 0 =>
        RenderedDocs = Leading(IndexSearch(trace.query.val),
                               page.searchoptions.limit_results)

\* C12 witness: a query with more index results than limit_results was
\* rendered.
C12_Witness ==
    /\ trace.lookups > 0
    /\ Len(IndexSearch(trace.query.val)) > page.searchoptions.limit_results
    /\ Len(page.searchresults) = page.searchoptions.limit_results

(***************************************************************************)
(* Keyboard navigation: the focus states globalKeyHandler moves between.   *)
(***************************************************************************)

\* A key pressed with no modifier held.
Key(keyCode) == [keyCode |-> keyCode, modifier |-> FALSE]

\* The event that just ended was a keydown of this key that reached globalKeyHandler.
Pressed(keyCode) == trace.handled /\ trace.key = Some(Key(keyCode))

\* The world after the keys of a sequence are pressed one after the other,
\* each reaching globalKeyHandler.
RECURSIVE Press(_, _)
Press(w, keyCodes) ==
    IF keyCodes = <<>> THEN w
    ELSE Press(globalKeyHandler(w, Key(Head(keyCodes))), Tail(keyCodes))

\* The focus state after a sequence of keys pressed in the present state.
After(keyCodes) == FocusState(Press(Event("keydown"), keyCodes).page)

\* C13: from Unfocused with at least two rendered results, the keys Hotkey,
\* Down, Down, Up lead through SearchbarFocused, ResultFocused(0) and
\* ResultFocused(1) to ResultFocused(0).
C13_KeyboardSequence ==
    ( /\ Registered(World)
      /\ FocusState(page) = Unfocused
      /\ Len(page.searchresults) >= 2 ) =>
        /\ After(<<SEARCH_HOTKEY_KEYCODE>>) = SearchbarFocused
        /\ After(<<SEARCH_HOTKEY_KEYCODE, DOWN_KEYCODE>>) = ResultFocused(0)
        /\ After(<<SEARCH_HOTKEY_KEYCODE, DOWN_KEYCODE, DOWN_KEYCODE>>) = ResultFocused(1)
        /\ After(<<SEARCH_HOTKEY_KEYCODE, DOWN_KEYCODE, DOWN_KEYCODE, UP_KEYCODE>>)
               = ResultFocused(0)

\* C14: a Down key pressed in SearchbarFocused with an empty result list leaves
\* the search box focused and no result focused.
C14_DownOnEmptyList ==
    [][ ( /\ Pressed(DOWN_KEYCODE)'
          /\ FocusState(page) = SearchbarFocused
          /\ page.searchresults = <<>> ) =>
            FocusState(page') = SearchbarFocused ]_vars

ResultsPanelVisible(p) == p.searchresults_outer = "block"

\* C16: in the state right after an Escape key the results panel is not
\* visible.
C16_EscapeHidesResults ==
    Pressed(ESCAPE_KEYCODE) => ~ResultsPanelVisible(page)

\* C17: after an Escape key the live URL has no search parameter, and the
\* change was committed by one pushState when the trimmed text of the search
\* box was not empty and by one replaceState when it was.
C17_EscapeClearsUrl ==
    Pressed(ESCAPE_KEYCODE) =>
        /\ ~HasKey(href, URL_SEARCH_PARAM)
        /\ ops = << IF Trim(page.searchbar_value) # <<>> THEN "push" ELSE "replace" >>

\* C17 witness: Escape with text in the box pushed a URL without the search
\* parameter that the URL before it had.
C17_Witness ==
    /\ Pressed(ESCAPE_KEYCODE)
    /\ ops = <<"push">>
    /\ Len(calls) = 1
    /\ HasKey(calls[1].before, URL_SEARCH_PARAM)
    /\ Len(hist.entries) = 2

\* C20: a key event with a modifier held that reaches globalKeyHandler changes
\* nothing: focus, the search box, the visibility of box and results, the
\* highlighting, the URL and the history are as before, whatever the key.
C20_ModifierIgnored ==
    [][ (trace'.handled /\ trace'.key.some /\ trace'.key.val.modifier) =>
          /\ page' = page
          /\ href' = href
          /\ hist' = hist
          /\ ops' = <<>>
          /\ calls' = <<>> ]_vars

\* C20 witness: Escape with a modifier held, pressed in the focused search box
\* with a search in the URL and its results shown.
C20_Witness ==
    /\ trace.handled
    /\ trace.key = Some([keyCode |-> ESCAPE_KEYCODE, modifier |-> TRUE])
    /\ page.focused
    /\ page.searchresults # <<>>
    /\ HasKey(href, URL_SEARCH_PARAM)

\* The number of rendered results.
Rendered == Len(page.searchresults)

\* The handler is installed and the search box is focused with at least n
\* results rendered: one Down from here is to give ResultFocused(0).
BeforeFirstResult(n) ==
    /\ Registered(World)
    /\ FocusState(page) = SearchbarFocused
    /\ Rendered >= n

\* C18: Down from ResultFocused(i) gives ResultFocused(i+1) when there is a
\* result i+1 and leaves ResultFocused(i) otherwise, and the focused index stays
\* below the number of rendered results; ResultFocused(0) being the state Down
\* from SearchbarFocused is to give.
C18_DownFromResult ==
    /\ FocusState(page).name = "ResultFocused" =>
          /\ FocusState(page).index < Rendered
          /\ Registered(World) =>
                After(<<DOWN_KEYCODE>>) =
                    IF FocusState(page).index + 1 < Rendered
                    THEN ResultFocused(FocusState(page).index + 1)
                    ELSE FocusState(page)
    /\ BeforeFirstResult(1) =>
          After(<<DOWN_KEYCODE, DOWN_KEYCODE>>) =
              ResultFocused(IF Rendered >= 2 THEN 1 ELSE 0)

\* The keys in the sequence, pressed in the present state, leave the page, the
\* URL and the history as they are.
ChangeNothing(keyCodes) ==
    LET w == Press(Event("keydown"), keyCodes)
    IN  w.page = page /\ w.href = href /\ w.hist = hist

\* C19: Up from ResultFocused(0) gives SearchbarFocused, Up from ResultFocused(i)
\* with i > 0 gives ResultFocused(i-1), and Up, Down and Enter in Unfocused
\* change nothing; ResultFocused(0) and ResultFocused(1) being the states one
\* and two Downs from SearchbarFocused are to give.
C19_UpFromResult ==
    /\ (Registered(World) /\ FocusState(page).name = "ResultFocused") =>
          After(<<UP_KEYCODE>>) =
              IF FocusState(page).index = 0
              THEN SearchbarFocused
              ELSE ResultFocused(FocusState(page).index - 1)
    /\ BeforeFirstResult(1) => After(<<DOWN_KEYCODE, UP_KEYCODE>>) = SearchbarFocused
    /\ BeforeFirstResult(2) =>
          After(<<DOWN_KEYCODE, DOWN_KEYCODE, UP_KEYCODE>>) = ResultFocused(0)
    /\ (Registered(World) /\ FocusState(page) = Unfocused) =>
          \A keyCode \in {UP_KEYCODE, DOWN_KEYCODE, SELECT_KEYCODE} :
              ChangeNothing(<<keyCode>>)

(***************************************************************************)
(* Claims on the offsets of the teaser's words (under SpecTeaser).         *)
(***************************************************************************)

\* The number of non-empty tokens the sentences of the escaped body hold.
TokenCount ==
    LET sentences == SplitOn(Escaped, <<".", " ">>)
    IN  Len(Concat([j \in 1..Len(sentences) |-> SentenceWords(sentences[j])]))

\* C24: every word recorded with offset o is the text of the escaped body
\* from o to o + length(word); no recorded word is empty, and there are as
\* many words as the sentences have non-empty tokens.
C24_WordOffsets ==
    teaser.done =>
        /\ \A k \in 1..Len(teaser.weighted) :
              /\ teaser.weighted[k][1] # <<>>
              /\ teaser.weighted[k][3] >= 0
              /\ WordEnd(teaser.weighted[k]) <= Len(Escaped)
              /\ Substring(Escaped, teaser.weighted[k][3], WordEnd(teaser.weighted[k]))
                     = teaser.weighted[k][1]
        /\ Len(teaser.weighted) = TokenCount

\* A body with a ". " followed by another space, and a word
\* recorded after them, in a later sentence than the first word.
C24_Witness ==
    /\ teaser.done
    /\ \E i \in 1..(Len(Escaped) - 2), k \in 2..Len(teaser.weighted) :
          /\ Substring(Escaped, i - 1, i + 1) = <<".", " ">>
          /\ Escaped[i + 2] = " "
          /\ teaser.weighted[k][3] > i + 1
          /\ teaser.weighted[1][3] < i - 1

(***************************************************************************)
(* Claims on refining a search, the rendered results and the focus (under  *)
(* Spec).                                                                  *)
(***************************************************************************)

\* The event that just ended was a keyup that reached searchbarKeyUpHandler.
KeyUpHandled == trace.event = "keyup" /\ trace.handled

\* C23: of the keyup events that follow one another with no Escape and no
\* history navigation or load between them, only the first may commit by a
\* push: each commits exactly one history operation, and every one after the
\* first commits a replace and leaves the number of history entries and the
\* position in them as they were, also after a keyup with an empty term.
C23_RefineReplaces ==
    [][ KeyUpHandled' =>
          /\ Len(ops') = 1
          /\ trace.refining =>
                /\ ops' = <<"replace">>
                /\ Len(hist'.entries) = Len(hist.entries)
                /\ hist'.idx = hist.idx ]_vars

\* A keyup with a term replaced a URL whose search value was empty, the URL a
\* keyup with an empty term leaves.
C23_Witness ==
    /\ KeyUpHandled
    /\ trace.refining
    /\ Trim(page.searchbar_value) # <<>>
    /\ ops = <<"replace">>
    /\ Get(parseURL(calls[1].before).params, URL_SEARCH_PARAM) = Str(<<>>)

\* C25: after a keyup handled with a non-empty trimmed term t, whatever keyups,
\* Escapes and navigations came before, the rendered list is the leading
\* limit_results documents of the index's ranking for t and the results panel
\* is visible.
C25_ResultsMatchBox ==
    (KeyUpHandled /\ Trim(page.searchbar_value) # <<>>) =>
        /\ RenderedDocs = Leading(IndexSearch(Trim(page.searchbar_value)),
                                  page.searchoptions.limit_results)
        /\ ResultsPanelVisible(page)

\* The rendered result items that carry the class "focus".
FocusedItems == {i \in 1..Len(page.searchresults) : page.searchresults[i].focus}

UrlApplied == trace.event \in {"load", "popstate"} /\ trace.handled

\* The URL doSearchOrMarkFromUrl found: the live URL before the handler's
\* first rewrite, if it made one.
AppliedUrl == IF calls # <<>> THEN calls[1].before ELSE href

\* The value of the search parameter as the URL spells it: the text after the
\* "=" of its last search segment; None when no segment has the key or the
\* segment has no "=".
SearchValue(url) ==
    LET segs == SelectSeq(QuerySegments(url), LAMBDA sg : SegKey(sg) = URL_SEARCH_PARAM)
        sg   == segs[Len(segs)]
    IN  IF segs = <<>> \/ FirstIdx(sg, {"="}) > Len(sg) THEN None
        ELSE Some(SubSeq(sg, FirstIdx(sg, {"="}) + 1, Len(sg)))

\* A value URL-decoded with "+" read as a space; the value itself when an
\* escape in it is malformed.
FormDecoded(value) ==
    IF Decodable(ReplaceAll(value, "+", "%20"))
    THEN decodeURIComponent(ReplaceAll(value, "+", "%20"))
    ELSE value

\* C21: after a load or history navigation is applied, if the URL has a search
\* parameter with a non-empty value the search box is shown and holds the
\* decoded value ("+" as space) and a query was triggered; otherwise the search
\* box is hidden and no query was triggered.
C21_ApplyFromUrl ==
    UrlApplied =>
        LET v == SearchValue(AppliedUrl) IN
        IF v.some /\ v.val # <<>>
        THEN /\ page.searchbar_outer # "none"
             /\ page.searchbar_value = FormDecoded(v.val)
             /\ Queried
        ELSE /\ page.searchbar_outer = "none"
             /\ ~Queried

\* C22: applying a URL whose search value has a malformed percent escape raises
\* nothing: the search box holds the raw value and the handler completes, so
\* the raw value is queried.
C22_MalformedEscape ==
    (UrlApplied /\ SearchValue(AppliedUrl).some
                /\ ~Decodable(ReplaceAll(SearchValue(AppliedUrl).val, "+", "%20"))) =>
        /\ ~trace.threw
        /\ page.searchbar_value = SearchValue(AppliedUrl).val
        /\ trace.query = Some(Trim(SearchValue(AppliedUrl).val))

\* C27: after a keyup handled with a non-empty trimmed term t, applying the URL
\* it left to a search box that holds another text raises nothing, puts
\* exactly t into the box and queries exactly t.
C27_TermRoundTrip ==
    (KeyUpHandled /\ Trim(page.searchbar_value) # <<>>) =>
        LET t == Trim(page.searchbar_value)
            w == doSearchOrMarkFromUrl(
                     [Event("popstate") EXCEPT !.page.searchbar_value = <<>>], FALSE)
        IN  /\ ~w.trace.threw
            /\ w.page.searchbar_value = t
            /\ w.trace.query = Some(t)

\* C29: a load or a history navigation commits no push: every history
\* operation of the event is a replace, and the number of history entries
\* stays as it was.
C29_NoPushFromUrl ==
    [][ trace'.event \in {"load", "popstate"} =>
          /\ \A i \in 1..Len(ops') : ops'[i] = "replace"
          /\ Len(hist'.entries) = Len(hist.entries) ]_vars

\* A history navigation reached a URL with a search value and the handler
\* rewrote it by a replace to another URL.
C29_Witness ==
    /\ trace.event = "popstate"
    /\ trace.handled
    /\ ops = <<"replace">>
    /\ href # AppliedUrl

(***************************************************************************)
(* Claim on the links of the results (under Spec).                         *)
(***************************************************************************)

\* The URL a relative link of the page leads to: the directory of the page's
\* URL, then the link.
LinkTarget(link) ==
    LET dir == CHOOSE n \in 1..Len(UrlPrefix) :
                   /\ UrlPrefix[n] = "/"
                   /\ \A m \in (n + 1)..Len(UrlPrefix) : UrlPrefix[m] # "/"
    IN  BrowserEncode(SubSeq(UrlPrefix, 1, dir) \o link)

\* The page a link leads to, once its index has loaded.
Followed(link) ==
    onload([ href  |-> LinkTarget(link),
             hist  |-> [entries |-> <<LinkTarget(link)>>, idx |-> 1],
             ops   |-> <<>>,
             calls |-> <<>>,
             page  |-> PageInit,
             trace |-> [TraceInit EXCEPT !.event = "load"] ],
           [status |-> 200, doc |-> "enabled", options |-> LoadedOptions],
           FALSE)

\* C28: for every result link rendered for a query with the term list T, the
\* page the link leads to hands exactly T to the highlighter when it applies
\* its URL.
C28_HighlightRoundTrip ==
    \A i \in 1..Len(page.searchresults) :
        LET w == Followed(page.searchresults[i].href)
        IN  /\ ~w.trace.threw
            /\ w.page.marked = Some(page.searchresults[i].searchterms)

=============================================================================
